---------------------------- MODULE Spec2Model ----------------------------
(***************************************************************************)
(* A model of the scribe load generator (typeFile / typeChunk) and of the  *)
(* DeltaQueueProxy of the container loader.                                *)
(*                                                                         *)
(* typeFile either types the whole text through one driver (writers = 1)   *)
(* or pushes every chunk key of the "chunks" map through an async queue    *)
(* whose concurrency is `writers`.  Each driver (typeChunk) types its      *)
(* chunk one character per type() tick, records a send timestamp per       *)
(* operation and handles the "op" events of the shared string.             *)
(*                                                                         *)
(* The specifications are given over the same variables and actions:       *)
(*   Spec        the dispatcher with NumChunks chunks; the wall clock is   *)
(*               not advanced, so no acknowledgement arrives later than    *)
(*               RunningCalculationDelay after the start of its session.   *)
(*   SpecDriver  one chunk, with the wall clock and the 1 s telemetry      *)
(*               timer, for the claims about one driver's bookkeeping.     *)
(*   SpecChart   one short chunk, with the wall clock and enough ticks of  *)
(*               the telemetry timer for the chart buffer to wrap around.  *)
(*   SpecProxy   the DeltaQueueProxy and its queue, the load generator not  *)
(*               started.                                                  *)
(*   SpecLines   one chunk of several lines typed in either pacing mode    *)
(*               (setImmediate or setInterval), the wall clock not         *)
(*               advanced, for the claims about the typing loop.           *)
(***************************************************************************)
EXTENDS Integers, Sequences, FiniteSets, TLC

VARIABLES
    play,          \* the module-level pause flag (line 6)
    now,           \* Date.now(), in milliseconds
    writers,       \* typeFile's `writers` argument
    chunks,        \* chunk key -> normalized chunk text (a sequence of characters)
    chunkMap,      \* the outcome of looking up "chunks" and of getView()
    fileState,     \* the promise returned by typeFile
    fileResult,    \* the value typeFile resolved with
    tasks,         \* the queue's waiting chunk keys
    workers,       \* the chunk keys whose worker holds a slot of the queue
    metricsArray,  \* typeFile's metricsArray: the sessions in queue-callback order
    drv,           \* chunk key -> the state of its typeChunk invocation
    lastForeign,   \* the last message of another client handed to an "op" handler
    proxy          \* a DeltaQueueProxy with the queue it forwards to

\* the state of the load generator
scribeVars == <<play, now, writers, chunks, chunkMap, fileState, fileResult,
                tasks, workers, metricsArray, drv, lastForeign>>

vars == <<play, now, writers, chunks, chunkMap, fileState, fileResult,
          tasks, workers, metricsArray, drv, lastForeign, proxy>>

---------------------------------------------------------------------------
(* Bounds of the model *)

\* number of keys of the chunk map in Spec
NumChunks == 3

\* a driver whose cursor has run past the end of its chunk emits at most
\* MaxSent operations in all (within its chunk a driver emits one operation
\* per tick, whatever the chunk's length)
MaxSent == 4

\* the clock is advanced at most MaxAdvance times, by TimeStep each
MaxAdvance == 2

\* the telemetry timer records at most MaxTicks samples per session
MaxTicks == 1

\* in SpecChart the telemetry timer records at most MaxChartTicks samples
MaxChartTicks == 12

\* the queue behind the DeltaQueueProxy holds at most MaxQueue messages
MaxQueue == 3

\* the longest chunk of SpecLines has MaxLines newlines
MaxLines == 10

---------------------------------------------------------------------------
(* Program constants *)

saveLineFrequency == 5

RunningCalculationDelay == 10000

ChartSamples == 10

histogramRange == 5

\* `undefined` in a numeric field of the metrics record
Undef == -1

\* the value of charCodeAt past the end of the string (NaN): no character code
NaN == -2

\* one step of the clock, chosen so that two steps exceed RunningCalculationDelay
TimeStep == 6000

---------------------------------------------------------------------------
(* Inputs *)

ChunkKeys == 1 .. NumChunks

\* the values of `writers` the model runs: the single-writer and the queue path
WriterChoices == {1, 2}

\* chunk texts of the dispatcher specification
DispatchCorpora == { <<>>, <<"a">>, <<"a", "\n">> }

\* chunk texts of the driver specification
DriverCorpora ==
    { <<>>, <<"a">>, <<"\n">>, <<"a", "b">>, <<"a", "\n", "b">>,
      <<"a", "\r", "\n">>, <<"\r", "b">>, <<"a", "\r">> }

\* the outcomes of doc.getRoot().get("chunks") followed by getView()
ChunkMapOutcomes == {"ok", "rejected", "missing", "viewFails"}

\* the shapes of message.traces: an array of length 8 whose last entry is
\* tagged "ping", one of length 8 tagged otherwise, and a shorter one
TraceKinds == {"ping", "other", "short"}

\* traces[7].timestamp - traces[0].timestamp of a ping trace
PingDelta == 7

---------------------------------------------------------------------------
(* Pure helpers *)

\* String.prototype.charCodeAt at a 0-based position: NaN past the end
CharCodeAt(chunk, pos) ==
    IF pos >= Len(chunk) THEN NaN
    ELSE IF chunk[pos + 1] = "\n" THEN 10
    ELSE IF chunk[pos + 1] = "\r" THEN 13
    ELSE 97

Min2(a, b) == IF a <= b THEN a ELSE b

Max2(a, b) == IF a >= b THEN a ELSE b

\* utils.RateCounter after reset(): nothing accumulated, no sample seen
RateCounterReset == [value |-> 0, samples |-> 0, minimum |-> Undef, maximum |-> Undef]

\* utils.RateCounter.increment(amount)
RateCounterIncrement(c, amount) ==
    [value   |-> c.value + amount,
     samples |-> c.samples + 1,
     minimum |-> IF c.samples = 0 THEN amount ELSE Min2(c.minimum, amount),
     maximum |-> IF c.samples = 0 THEN amount ELSE Max2(c.maximum, amount)]

\* utils.Histogram.add(value): one more sample in bucket floor(value / increment);
\* the histogram is the function bucket -> count over the buckets hit so far
HistogramAdd(h, value) ==
    LET b == value \div histogramRange
    IN  IF b \in DOMAIN h THEN [h EXCEPT ![b] = @ + 1] ELSE (b :> 1) @@ h

\* the histogram before any sample
HistogramEmpty == [b \in {} |-> 0]

\* createChartData(length): `length` zeroed slots per array, write index 0;
\* `written` records, for every slot, the rank of the sample last written to it
\* (0: never written)
createChartData(length) ==
    [index   |-> 0,
     label   |-> [i \in 1 .. length |-> Undef],
     maximum |-> [i \in 1 .. length |-> 0],
     mean    |-> [i \in 1 .. length |-> 0],
     minimum |-> [i \in 1 .. length |-> 0],
     stdDev  |-> [i \in 1 .. length |-> 0],
     written |-> [i \in 1 .. length |-> 0]]

\* rearrange splitting the array before the slot at `index`
rearrangeBefore(array, index) ==
    SubSeq(array, index + 1, Len(array)) \o SubSeq(array, 1, index)

\* rearrange(array, index) (lines 184-188): the elements up to and including
\* the one at the 0-based `index` are moved behind the others
rearrange(array, index) ==
    SubSeq(array, index + 2, Len(array)) \o SubSeq(array, 1, index + 1)

\* combine(first, second, combine) (lines 190-197), for the two combining
\* functions it is called with: a + b (sign 1) and a - b (sign -1)
combine(first, second, sign) ==
    [i \in 1 .. Len(first) |-> first[i] + sign * second[i]]

\* getChartConfiguration(data) (lines 95-159): the series handed to the chart;
\* `order` is the view of `written`
getChartConfiguration(data) ==
    LET mean   == rearrange(data.mean, data.index)
        stddev == rearrange(data.stdDev, data.index)
    IN  [categoryNames |-> rearrange(data.label, data.index),
         values        |-> mean,
         plusStddev    |-> combine(mean, stddev, 1),
         negStddev     |-> combine(mean, stddev, -1),
         order         |-> rearrange(data.written, data.index)]

\* the performanceData cell before its first set (line 274)
EmptyCell ==
    [categoryNames |-> << >>, values |-> << >>, plusStddev |-> << >>,
     negStddev |-> << >>, order |-> << >>]

---------------------------------------------------------------------------
(* The state of one typeChunk invocation *)

\* the metrics record as typeChunk creates it (lines 297-311); latencyAverage
\* is kept as the pair latencyValue / latencySamples it is computed from, and
\* the two progress fields are kept as their numerators over chunk.length
InitialMetrics(chunk) ==
    [ackProgress     |-> Undef,
     latencyValue    |-> Undef,
     latencySamples  |-> Undef,
     latencyMaximum  |-> Undef,
     latencyMinimum  |-> Undef,
     latencyStdDev   |-> Undef,
     pingAverage     |-> Undef,
     pingMaximum     |-> Undef,
     textLength      |-> Len(chunk),
     time            |-> 0,
     typingProgress  |-> Undef]

\* the closure state of typeChunk before the driver is started.  Beside the
\* program's own variables it records what an observer of the session sees:
\*   sent, acked  the operations submitted and the own acknowledgements handled
\*   callbacks    the invocations of the caller's metrics callback
\*   handedLive   whether the metrics record itself (not a copy) was handed to
\*                the caller's callback, and its value at that moment
\*   inFlight     the send times of the unacknowledged operations, oldest first
\*   lastPopped   the send time the last latency computation used
\*   lastSent     the send time of the operation the last acknowledgement resolved
\*   published    the number of chart publications
InitialDriver(chunk) ==
    [phase          |-> "Idle",
     intervalTime   |-> 0,
     signals        |-> 0,
     readPosition   |-> 0,
     lineNumber     |-> 0,
     saves          |-> 0,
     sent           |-> 0,
     acked          |-> 0,
     messageStart   |-> << >>,
     startTime      |-> 0,
     metrics        |-> InitialMetrics(chunk),
     ackCounter     |-> RateCounterReset,
     latencyCounter |-> RateCounterReset,
     pingCounter    |-> RateCounterReset,
     histogram      |-> HistogramEmpty,
     mean           |-> 0,
     stdDevAcc      |-> 0,
     chartData      |-> createChartData(ChartSamples),
     published      |-> 0,
     performanceData |-> EmptyCell,
     intervalOn     |-> FALSE,
     resolved       |-> FALSE,
     callbacks      |-> 0,
     handedLive     |-> [given |-> FALSE, val |-> InitialMetrics(chunk)],
     inFlight       |-> << >>,
     lastPopped     |-> Undef,
     lastSent       |-> Undef]

---------------------------------------------------------------------------
(* The "op" handler of typeChunk (lines 347-399) *)

\* IsOwnAck without the comparison of the client ids
IsAnyAck(message, clientId) ==
    message.clientSequenceNumber # 0

\* line 348: the message is an acknowledgement of one of this session's operations
IsOwnAck(message, clientId) ==
    message.clientSequenceNumber # 0 /\ message.clientId = clientId

\* line 358: the running calculation starts RunningCalculationDelay after the start
PastDelay(d) == now - d.startTime > RunningCalculationDelay

\* line 362: the trace array carries a ping measurement
HasPing(message) == message.traces = "ping"

\* AllAcked with > for >=
AllAckedStrict(message, chunk) == message.clientSequenceNumber > Len(chunk)

\* line 387: every operation of the chunk has been sequenced
AllAcked(message, chunk) == message.clientSequenceNumber >= Len(chunk)

\* lines 359-381: the running latency, ping and histogram update.  pop() takes
\* the last element of messageStart (of an empty array it yields undefined and
\* the round trip is NaN; an own acknowledgement never finds the array empty)
LatencyUpdate(d, message) ==
    LET n         == Len(d.messageStart)
        popped    == IF n = 0 THEN Undef ELSE d.messageStart[n]
        roundTrip == IF n = 0 THEN NaN ELSE now - popped
        lc        == RateCounterIncrement(d.latencyCounter, roundTrip)
        pc        == IF HasPing(message)
                     THEN RateCounterIncrement(d.pingCounter, PingDelta)
                     ELSE d.pingCounter
        average   == lc.value \div lc.samples
        acc       == d.stdDevAcc + (roundTrip - average) * (roundTrip - d.mean)
    IN  [d EXCEPT
            !.messageStart   = IF n = 0 THEN << >> ELSE SubSeq(d.messageStart, 1, n - 1),
            !.lastPopped     = popped,
            !.latencyCounter = lc,
            !.pingCounter    = pc,
            !.histogram      = HistogramAdd(d.histogram, roundTrip),
            !.stdDevAcc      = acc,
            !.mean           = average,
            !.metrics        = [d.metrics EXCEPT
                !.pingAverage    = IF pc.samples = 0 THEN NaN ELSE pc.value \div pc.samples,
                !.pingMaximum    = pc.maximum,
                !.latencyMinimum = lc.minimum,
                !.latencyMaximum = lc.maximum,
                !.latencyValue   = lc.value,
                !.latencySamples = lc.samples,
                !.latencyStdDev  = IF lc.samples > 1 THEN acc \div (lc.samples - 1) ELSE 0]]

\* lines 387-392: completion: the timer is cleared and the promise resolved
Complete(d) ==
    [d EXCEPT !.intervalOn   = FALSE,
              !.metrics.time = now - d.startTime,
              !.resolved     = TRUE]

\* line 397: callback(clone(metrics)): the caller receives a copy of the record
NotifyCopy(d) == [d EXCEPT !.callbacks = @ + 1]

\* the whole handler, for the driver state d of the session with id clientId
OnOp(d, chunk, clientId, message) ==
    IF ~IsOwnAck(message, clientId) THEN d
    ELSE
        LET d1 == [d EXCEPT !.acked      = @ + 1,
                            !.lastSent   = IF d.inFlight = << >> THEN Undef ELSE Head(d.inFlight),
                            !.inFlight   = IF d.inFlight = << >> THEN << >> ELSE Tail(d.inFlight),
                            !.ackCounter = RateCounterIncrement(@, 1)]
            d2 == IF PastDelay(d1) THEN LatencyUpdate(d1, message) ELSE d1
            d3 == IF AllAcked(message, chunk) THEN Complete(d2) ELSE d2
            d4 == [d3 EXCEPT !.metrics.ackProgress = message.clientSequenceNumber]
        IN  NotifyCopy(d4)

---------------------------------------------------------------------------
(* type(): one scheduling tick of a driver (lines 416-461) *)

\* line 418: the read cursor is at the end of the chunk
AtEnd(d, chunk) == d.readPosition = Len(chunk)

\* Paused with the flag read the wrong way round
PausedInverted == play

\* line 422: the global pause flag is asserted
Paused == ~play

\* lines 435-439: a carriage return is skipped before the character is read
SkipCarriageReturn(d, chunk) ==
    IF CharCodeAt(chunk, d.readPosition) = 13 THEN d.readPosition + 1 ELSE d.readPosition

\* SaveDue one line late
SaveDueLate(lineNumber) == lineNumber % saveLineFrequency = 1

\* line 449: a save is requested every saveLineFrequency lines
SaveDue(lineNumber) == lineNumber % saveLineFrequency = 0

\* lines 405-414 and 441-456: trackOperation around the insertion of one unit:
\* a paragraph marker for a newline, the character otherwise; the cursor
\* advances and the send time is pushed on messageStart
Emit(d, chunk) ==
    LET pos  == SkipCarriageReturn(d, chunk)
        code == CharCodeAt(chunk, pos)
        line == d.lineNumber + 1
    IN  IF code = 10
        THEN [d EXCEPT !.readPosition = pos + 1,
                       !.lineNumber   = line,
                       !.saves        = IF SaveDue(line) THEN @ + 1 ELSE @,
                       !.sent         = @ + 1,
                       !.inFlight     = Append(@, now),
                       !.messageStart = Append(@, now)]
        ELSE [d EXCEPT !.readPosition = pos + 1,
                       !.sent         = @ + 1,
                       !.inFlight     = Append(@, now),
                       !.messageStart = Append(@, now)]

\* lines 425-460: the emitting branch of type()
TypeEmit(d, chunk) ==
    LET d1 == Emit(d, chunk)
    IN  [d1 EXCEPT !.metrics.typingProgress = d1.readPosition]

\* Rescheduled whose interval is never cleared
RescheduledNoClear(d, result) ==
    IF d.intervalTime = 0 THEN result ELSE TRUE

\* lines 463-483: whether type() runs again after a tick that returned `result`:
\* typeFast re-arms setImmediate when type() returned true (lines 465-467); the
\* interval keeps firing unless type() returned false and it is cleared
\* (lines 477-479)
Rescheduled(d, result) ==
    IF d.intervalTime = 0 THEN result ELSE ~(~result)

\* lines 418-421: type() at the end of the chunk invokes queueCallback and
\* returns false
EndOfChunk(d) ==
    [d EXCEPT !.phase   = IF Rescheduled(d, FALSE) THEN "Emitting" ELSE "Halted",
              !.signals = @ + 1]

\* line 419 with writers = 1: queueCallback is the caller's metrics callback
CallbackAtEnd(d) ==
    [EndOfChunk(d) EXCEPT !.callbacks  = @ + 1,
                          !.handedLive = [given |-> TRUE, val |-> d.metrics]]

---------------------------------------------------------------------------
(* The queue of typeFile (lines 222-240): async's queue with concurrency     *)
(* `writers`.  The worker is the transpiled async function: the queue calls  *)
(* it with (chunkKey, _callback), a slot is held from that call until        *)
(* _callback is invoked, and the function hands _callback to typeChunk as    *)
(* queueCallback.  The invocation of _callback runs the task's callback,     *)
(* q.drain when nothing waits or runs, and q.process().                      *)

\* CanStart without the concurrency limit
CanStartUnbounded(w, t) == t # << >>

\* q.process(): while a slot is free and a key waits, the next key's worker starts
CanStart(w, t) == Cardinality(w) < writers /\ t # << >>

RECURSIVE Process(_, _, _)
Process(t, w, ds) ==
    IF CanStart(w, t)
    THEN Process(Tail(t), w \cup {Head(t)},
                 [ds EXCEPT ![Head(t)].phase = "Connecting"])
    ELSE [tasks |-> t, workers |-> w, drv |-> ds]

\* ReleaseSlot that keeps the slot occupied
KeepSlot(w, k) == w

\* the worker's callback, invoked by type() at the end of the chunk (line 419),
\* frees the slot its worker held
ReleaseSlot(w, k) == w \ {k}

\* Idle without the running workers
IdleIgnoringWorkers(t, w) == t = << >>

\* q.idle(): nothing waits and nothing runs
Idle(t, w) == t = << >> /\ w = {}

\* DrainResult taking the last record pushed
DrainResultLast(ma) == ma[Len(ma)]

\* line 239: the value typeFile resolves with when the queue drains
DrainResult(ma) == ma[1]

---------------------------------------------------------------------------
(* Initial states *)

Keys == DOMAIN chunks

---------------------------------------------------------------------------
(* DeltaQueueProxy (deltaManagerProxy.ts, lines 25-80) and the IDeltaQueue   *)
(* it forwards to.  The queue is known by its interface only: pause() and    *)
(* resume() set and clear `paused`, and a paused queue delivers nothing.     *)

\* IDeltaQueue.pause()
queuePause(q) == [q EXCEPT !.paused = TRUE]

\* IDeltaQueue.resume()
queueResume(q) == [q EXCEPT !.paused = FALSE]

\* lines 38-43: a proxy over a queue that is paused or not; lastCall is the
\* last of the four pause / resume methods called on the proxy
DeltaQueueProxy(paused) ==
    [systemPaused |-> FALSE,
     localPaused  |-> FALSE,
     queue        |-> [paused |-> paused, items |-> << >>],
     lastCall     |-> "none"]

\* lines 53-56
systemPause(p) ==
    [p EXCEPT !.systemPaused = TRUE,
              !.queue        = queuePause(@),
              !.lastCall     = "systemPause"]

\* lines 58-61
pause(p) ==
    [p EXCEPT !.localPaused = TRUE,
              !.queue       = queuePause(@),
              !.lastCall    = "pause"]

\* updateResume without the test of the two flags
updateResumeAlways(p) == [p EXCEPT !.queue = queueResume(@)]

\* lines 73-79: the queue is resumed when neither flag is set
updateResume(p) ==
    IF ~p.systemPaused /\ ~p.localPaused
    THEN [p EXCEPT !.queue = queueResume(@)]
    ELSE p

\* lines 63-66
systemResume(p) ==
    updateResume([p EXCEPT !.systemPaused = FALSE, !.lastCall = "systemResume"])

\* lines 68-71
resume(p) ==
    updateResume([p EXCEPT !.localPaused = FALSE, !.lastCall = "resume"])

\* no message of another client was handled yet
NoMessage == [to |-> 0, clientId |-> 0, clientSequenceNumber |-> 0, traces |-> "short"]

InitWith(corpora, keys, ws, its, qs) ==
    /\ play = FALSE
    /\ now = 0
    /\ writers \in ws
    /\ chunks \in [keys -> corpora]
    /\ chunkMap \in (IF writers = 1 THEN {"ok"} ELSE ChunkMapOutcomes)
    /\ fileState = "called"
    /\ fileResult = 0
    /\ tasks = << >>
    /\ workers = {}
    /\ metricsArray = << >>
    /\ \E it \in its :
           drv = [k \in keys |-> [InitialDriver(chunks[k]) EXCEPT !.intervalTime = it]]
    /\ lastForeign = NoMessage
    /\ proxy \in {DeltaQueueProxy(paused) : paused \in qs}

Init == InitWith(DispatchCorpora, ChunkKeys, WriterChoices, {0}, {TRUE})

InitDriver == InitWith(DriverCorpora, {1}, {1}, {0}, {TRUE})

---------------------------------------------------------------------------
(* Actions *)

\* togglePlay() (lines 30-32)
TogglePlay ==
    /\ play' = ~play
    /\ UNCHANGED <<now, writers, chunks, chunkMap, fileState, fileResult,
                   tasks, workers, metricsArray, drv, lastForeign, proxy>>

\* typeFile with writers = 1 (lines 210-212): the text is typed by one driver,
\* whose promise is the one typeFile returns
TypeFileSingle ==
    /\ fileState = "called"
    /\ writers = 1
    /\ fileState' = "pending"
    /\ drv' = [drv EXCEPT ![1].phase = "Connecting"]
    /\ UNCHANGED <<play, now, writers, chunks, chunkMap, fileResult,
                   tasks, workers, metricsArray, lastForeign, proxy>>

\* CatchResult without the catch handler: the rejection reaches the caller
CatchRethrows == "rejected"

\* lines 243-246: the catch handler turns a failed lookup into a null result
CatchResult == "resolvedNull"

\* typeFile with writers # 1 (lines 213-246): the chunk map is looked up; every
\* key is pushed on the queue, or the lookup's failure is caught
TypeFileMulti ==
    /\ fileState = "called"
    /\ writers # 1
    /\ IF chunkMap = "ok"
       THEN /\ fileState' = "pending"
            /\ tasks' = [i \in 1 .. Cardinality(Keys) |-> i]
       ELSE /\ fileState' = CatchResult
            /\ tasks' = tasks
    /\ UNCHANGED <<play, now, writers, chunks, chunkMap, fileResult,
                   workers, metricsArray, drv, lastForeign, proxy>>

\* the first q.process(), scheduled by q.push: up to `writers` workers start
QueueProcess ==
    /\ fileState = "pending"
    /\ writers # 1
    /\ CanStart(workers, tasks)
    /\ LET r == Process(tasks, workers, drv)
       IN  /\ tasks' = r.tasks
           /\ workers' = r.workers
           /\ drv' = r.drv
    /\ UNCHANGED <<play, now, writers, chunks, chunkMap, fileState, fileResult,
                   metricsArray, lastForeign, proxy>>

\* the awaits of the worker and of typeChunk (lines 224-228, 264-265) succeed:
\* the driver starts with its timer, its handler and its pacing loop installed
SessionReady(k) ==
    /\ drv[k].phase = "Connecting"
    /\ drv' = [drv EXCEPT ![k].phase      = "Emitting",
                          ![k].startTime  = now,
                          ![k].intervalOn = TRUE]
    /\ UNCHANGED <<play, now, writers, chunks, chunkMap, fileState, fileResult,
                   tasks, workers, metricsArray, lastForeign, proxy>>

\* api.load rejects (line 224 or 264).  With writers = 1 the promise typeFile
\* returned rejects; in a queue worker nothing handles the rejection and the
\* worker's callback is never invoked
SessionFail(k) ==
    /\ drv[k].phase = "Connecting"
    /\ drv' = [drv EXCEPT ![k].phase = "Failed"]
    /\ fileState' = IF writers = 1 THEN "rejected" ELSE fileState
    /\ UNCHANGED <<play, now, writers, chunks, chunkMap, fileResult,
                   tasks, workers, metricsArray, lastForeign, proxy>>

\* type() at the end of the chunk with writers = 1 (lines 418-421, 212)
HaltSingle(k) ==
    /\ writers = 1
    /\ drv[k].phase = "Emitting"
    /\ AtEnd(drv[k], chunks[k])
    /\ drv' = [drv EXCEPT ![k] = CallbackAtEnd(@)]
    /\ UNCHANGED <<play, now, writers, chunks, chunkMap, fileState, fileResult,
                   tasks, workers, metricsArray, lastForeign, proxy>>

\* type() at the end of the chunk in a queue worker (lines 418-421): the
\* worker's callback releases the slot, the task's callback pushes the metrics
\* (lines 234-236), a drained queue resolves typeFile (lines 238-240) and
\* q.process() starts the next waiting keys
HaltQueued(k) ==
    /\ writers # 1
    /\ drv[k].phase = "Emitting"
    /\ AtEnd(drv[k], chunks[k])
    /\ LET w  == ReleaseSlot(workers, k)
           ma == Append(metricsArray, k)
           r  == Process(tasks, w, [drv EXCEPT ![k] = EndOfChunk(@)])
       IN  /\ metricsArray' = ma
           /\ IF Idle(tasks, w)
              THEN fileState' = "resolved" /\ fileResult' = DrainResult(ma)
              ELSE UNCHANGED <<fileState, fileResult>>
           /\ tasks' = r.tasks
           /\ workers' = r.workers
           /\ drv' = r.drv
    /\ UNCHANGED <<play, now, writers, chunks, chunkMap, lastForeign, proxy>>

\* type() while paused (lines 422-424): nothing changes, the loop polls again
TypePaused(k) ==
    /\ drv[k].phase = "Emitting"
    /\ ~AtEnd(drv[k], chunks[k])
    /\ Paused
    /\ UNCHANGED vars

\* type() emitting one unit (lines 425-460)
TypeStep(k) ==
    /\ drv[k].phase = "Emitting"
    /\ ~AtEnd(drv[k], chunks[k])
    /\ ~Paused
    /\ drv[k].sent < MaxSent \/ drv[k].readPosition < Len(chunks[k])
    /\ drv' = [drv EXCEPT ![k] = TypeEmit(@, chunks[k])]
    /\ UNCHANGED <<play, now, writers, chunks, chunkMap, fileState, fileResult,
                   tasks, workers, metricsArray, lastForeign, proxy>>

\* the shared string raises "op" for the next unacknowledged operation of
\* session k: its client sequence number is the operation's rank
AckOwn(k, t) ==
    /\ drv[k].phase \in {"Emitting", "Halted"}
    /\ drv[k].acked < drv[k].sent
    /\ LET message == [clientId |-> k,
                       clientSequenceNumber |-> drv[k].acked + 1,
                       traces |-> t]
           d == OnOp(drv[k], chunks[k], k, message)
       IN  /\ drv' = [drv EXCEPT ![k] = d]
           /\ IF writers = 1 /\ d.resolved /\ fileState = "pending"
              THEN fileState' = "resolved" /\ fileResult' = k
              ELSE UNCHANGED <<fileState, fileResult>>
    /\ UNCHANGED <<play, now, writers, chunks, chunkMap,
                   tasks, workers, metricsArray, lastForeign, proxy>>

\* the shared string raises "op" for an operation of another client
AckForeign(k, c, n, t) ==
    /\ drv[k].phase \in {"Emitting", "Halted"}
    /\ c # k
    /\ LET message == [to |-> k, clientId |-> c, clientSequenceNumber |-> n, traces |-> t]
       IN  /\ drv' = [drv EXCEPT ![k] = OnOp(@, chunks[k], k, message)]
           /\ lastForeign' = message
    /\ UNCHANGED <<play, now, writers, chunks, chunkMap, fileState, fileResult,
                   tasks, workers, metricsArray, proxy>>

\* the wall clock advances
Advance ==
    /\ now < MaxAdvance * TimeStep
    /\ now' = now + TimeStep
    /\ UNCHANGED <<play, writers, chunks, chunkMap, fileState, fileResult,
                   tasks, workers, metricsArray, drv, lastForeign, proxy>>

\* StatsDefined without the test of the latency statistics
StatsAlways(d) == TRUE

\* line 330: the timer's callback acts only once the latency statistics exist
StatsDefined(d) == d.metrics.latencyStdDev # Undef

\* lines 332-338: the current statistics are written to the slot at the write index
WriteSlot(d) ==
    LET i == d.chartData.index + 1
    IN  [d EXCEPT !.chartData.label[i]   = now,
                  !.chartData.maximum[i] = d.metrics.latencyMaximum,
                  !.chartData.mean[i]    = d.metrics.latencyValue \div d.metrics.latencySamples,
                  !.chartData.minimum[i] = d.metrics.latencyMinimum,
                  !.chartData.stdDev[i]  = d.metrics.latencyStdDev,
                  !.chartData.written[i] = d.published + 1]

\* RecordSample that also hands the metrics to the caller's callback
RecordSampleNotifying(d) ==
    LET w == WriteSlot(d)
    IN  [w EXCEPT !.performanceData = getChartConfiguration(w.chartData),
                  !.published       = @ + 1,
                  !.callbacks       = @ + 1,
                  !.chartData.index = (@ + 1) % Len(d.chartData.maximum)]

\* lines 331-343: the slot is written, both charts are published and the
\* write index advances around the buffer
RecordSample(d) ==
    LET w == WriteSlot(d)
    IN  [w EXCEPT !.performanceData = getChartConfiguration(w.chartData),
                  !.published       = @ + 1,
                  !.chartData.index = (@ + 1) % Len(d.chartData.maximum)]

\* the 1 s telemetry timer of session k fires (lines 329-345), having
\* recorded fewer than `limit` samples
Tick(k, limit) ==
    /\ drv[k].intervalOn
    /\ drv[k].published < limit
    /\ drv' = [drv EXCEPT ![k] = IF StatsDefined(@) THEN RecordSample(@) ELSE @]
    /\ UNCHANGED <<play, now, writers, chunks, chunkMap, fileState, fileResult,
                   tasks, workers, metricsArray, lastForeign, proxy>>

MetricsTick(k) == Tick(k, MaxTicks)

ChartTick(k) == Tick(k, MaxChartTicks)

\* the four pause / resume methods of the proxy are called
ProxySystemPause ==
    /\ proxy' = systemPause(proxy)
    /\ UNCHANGED scribeVars

ProxyPause ==
    /\ proxy' = pause(proxy)
    /\ UNCHANGED scribeVars

ProxySystemResume ==
    /\ proxy' = systemResume(proxy)
    /\ UNCHANGED scribeVars

ProxyResume ==
    /\ proxy' = resume(proxy)
    /\ UNCHANGED scribeVars

\* the messages that reach the queue
DeltaMessages == {1, 2}

\* a message is pushed on the queue behind the proxy
DeltaPush(m) ==
    /\ Len(proxy.queue.items) < MaxQueue
    /\ proxy' = [proxy EXCEPT !.queue.items = Append(@, m)]
    /\ UNCHANGED scribeVars

\* the queue, not paused, delivers its first message
DeltaDeliver ==
    /\ ~proxy.queue.paused
    /\ proxy.queue.items # << >>
    /\ proxy' = [proxy EXCEPT !.queue.items = Tail(@)]
    /\ UNCHANGED scribeVars

---------------------------------------------------------------------------
(* Specifications *)

\* the other clients whose operations a handler sees, and the client sequence
\* numbers their messages carry
ForeignIds == {0}

ForeignSeqs == {1, 2}

Next ==
    \/ TogglePlay
    \/ TypeFileSingle
    \/ TypeFileMulti
    \/ QueueProcess
    \/ \E k \in Keys : SessionReady(k)
    \/ \E k \in Keys : SessionFail(k)
    \/ \E k \in Keys : HaltSingle(k)
    \/ \E k \in Keys : HaltQueued(k)
    \/ \E k \in Keys : TypePaused(k)
    \/ \E k \in Keys : TypeStep(k)
    \/ \E k \in Keys, t \in TraceKinds : AckOwn(k, t)

Spec == Init /\ [][Next]_vars

NextDriver ==
    \/ TogglePlay
    \/ TypeFileSingle
    \/ \E k \in Keys : SessionReady(k)
    \/ \E k \in Keys : SessionFail(k)
    \/ \E k \in Keys : HaltSingle(k)
    \/ \E k \in Keys : TypePaused(k)
    \/ \E k \in Keys : TypeStep(k)
    \/ \E k \in Keys, t \in TraceKinds : AckOwn(k, t)
    \/ Advance
    \/ \E k \in Keys : MetricsTick(k)
    \/ \E k \in Keys, c \in ForeignIds, n \in ForeignSeqs : AckForeign(k, c, n, "ping")

SpecDriver == InitDriver /\ [][NextDriver]_vars

\* a chunk of n newlines
Lines(n) == [i \in 1 .. n |-> "\n"]

\* the chunks of SpecLines: lines only, lines between two characters, and
\* chunks with a carriage return before a newline and at the end
LineCorpora ==
    { Lines(MaxLines),
      <<"a">> \o Lines(saveLineFrequency) \o <<"b">>,
      <<"a", "\r", "\n">>,
      <<"a", "\r">> }

\* the values of typeFile's intervalTime: typeFast (0) and setInterval (> 0)
IntervalTimes == {0, 1}

InitLines == InitWith(LineCorpora, {1}, {1}, IntervalTimes, {TRUE})

NextLines ==
    \/ TogglePlay
    \/ TypeFileSingle
    \/ \E k \in Keys : SessionReady(k)
    \/ \E k \in Keys : SessionFail(k)
    \/ \E k \in Keys : HaltSingle(k)
    \/ \E k \in Keys : TypePaused(k)
    \/ \E k \in Keys : TypeStep(k)
    \/ \E k \in Keys, t \in TraceKinds : AckOwn(k, t)

SpecLines == InitLines /\ [][NextLines]_vars

\* the chunks of SpecChart
ChartCorpora == { <<"a", "b">>, <<"a", "\n", "b">> }

InitChart == InitWith(ChartCorpora, {1}, {1}, {0}, {TRUE})

NextChart ==
    \/ TogglePlay
    \/ TypeFileSingle
    \/ \E k \in Keys : SessionReady(k)
    \/ \E k \in Keys : HaltSingle(k)
    \/ \E k \in Keys : TypePaused(k)
    \/ \E k \in Keys : TypeStep(k)
    \/ \E k \in Keys : AckOwn(k, "ping")
    \/ Advance
    \/ \E k \in Keys : ChartTick(k)

SpecChart == InitChart /\ [][NextChart]_vars

\* the proxy alone, over a queue that starts paused or not; the load generator
\* is not started
InitProxy == InitWith({<< >>}, {1}, {1}, {0}, {TRUE, FALSE})

NextProxy ==
    \/ ProxySystemPause
    \/ ProxyPause
    \/ ProxySystemResume
    \/ ProxyResume
    \/ \E m \in DeltaMessages : DeltaPush(m)
    \/ DeltaDeliver

SpecProxy == InitProxy /\ [][NextProxy]_vars

---------------------------------------------------------------------------
(* Claims about the dispatcher (checked under Spec) *)

\* the sessions whose worker has started on its key and whose driver has not
\* signalled dispatch-completion through the queue callback
ActiveSessions == {k \in Keys : drv[k].phase \in {"Connecting", "Emitting", "Failed"}}

\* the sessions whose driver has signalled dispatch-completion
HaltedSessions == {k \in Keys : drv[k].phase = "Halted"}

\* C1: with writers = W > 1, at most W sessions are active at any instant, and
\* the k-th pushed key (k > W) is taken by a worker only after k - W earlier
\* keys have signalled dispatch-completion
C1_BoundedConcurrency ==
    writers > 1 =>
        /\ Cardinality(ActiveSessions) <= writers
        /\ \A k \in Keys :
              (k > writers /\ drv[k].phase # "Idle") =>
                  Cardinality({j \in HaltedSessions : j < k}) >= k - writers

\* C1 witness: the last key runs in a slot an earlier key released, while
\* `writers` sessions are active
C1_Witness ==
    /\ writers = 2
    /\ Cardinality(Keys) > writers
    /\ drv[Cardinality(Keys)].phase = "Emitting"
    /\ Cardinality(ActiveSessions) = writers

\* C3: while play = false no driver emits an operation or records a send
\* timestamp, and no step moves a read cursor or a line counter; the one flag
\* holds for every driver at once
C3_PauseHalts ==
    [][ ~play =>
          \A k \in Keys :
              /\ drv'[k].sent = drv[k].sent
              /\ Len(drv'[k].messageStart) <= Len(drv[k].messageStart)
              /\ drv'[k].readPosition = drv[k].readPosition
              /\ drv'[k].lineNumber = drv[k].lineNumber ]_vars

\* C3 witness: paused again after emitting, with two drivers in the middle of
\* their chunks
C3_Witness ==
    /\ ~play
    /\ \E j, k \in Keys :
          /\ j # k
          /\ \A i \in {j, k} :
                /\ drv[i].phase = "Emitting"
                /\ drv[i].readPosition > 0
                /\ drv[i].readPosition < Len(chunks[i])

\* the sessions typeFile dispatched: the single driver, or every chunk key
Dispatched == IF writers = 1 THEN {1} ELSE Keys

\* the driver of k has not reached the end of its chunk
StillEmitting(k) ==
    drv[k].phase \in {"Connecting", "Emitting"} /\ drv[k].readPosition # Len(chunks[k])

\* the driver of k has sent operations that are not acknowledged yet
Draining(k) == drv[k].acked < drv[k].sent

\* C4 as stated: typeFile never resolves (with a metrics record) while a
\* dispatched session is still emitting or still awaits acknowledgements
C4_Original ==
    fileState = "resolved" =>
        \A k \in Dispatched : ~StillEmitting(k) /\ ~Draining(k)

\* C4 as amended: with writers = 1 typeFile resolves only after its driver has
\* reached Completed; with writers > 1 it resolves only after every chunk's
\* driver has signalled dispatch-completion (reached the end of its chunk)
C4_ResolvesAfterDispatchCompletion ==
    fileState = "resolved" =>
        IF writers = 1 THEN drv[1].resolved
        ELSE \A k \in Keys : drv[k].phase = "Halted"

\* C4 witness: typeFile has resolved while a session still awaits an
\* acknowledgement
C4_Witness ==
    /\ writers = 2
    /\ fileState = "resolved"
    /\ \E k \in Keys : ~drv[k].resolved /\ Draining(k)

\* C5: with writers > 1 the queue callbacks append the halting session to
\* metricsArray, and typeFile resolves with the record of the session that
\* entered the callback first
C5_FirstToComplete ==
    /\ [](writers # 1 /\ fileState = "resolved" =>
             /\ Len(metricsArray) = Cardinality(Keys)
             /\ fileResult = metricsArray[1])
    /\ [][ \A k \in Keys :
             (writers # 1 /\ drv[k].phase # "Halted" /\ drv'[k].phase = "Halted") =>
                 metricsArray' = Append(metricsArray, k) ]_vars

\* C5 witness: resolved with the record of a key that was not pushed first
C5_Witness ==
    /\ writers = 2
    /\ fileState = "resolved"
    /\ fileResult = 2
    /\ metricsArray[1] = 2

\* C6: with writers > 1, a failed lookup of the chunk map makes typeFile
\* resolve with null: it does not reject, no session is started and no
\* operation is emitted
C6_LookupFailureYieldsNull ==
    (writers # 1 /\ chunkMap # "ok") =>
        /\ fileState \in {"called", CatchResult}
        /\ fileState # "rejected"
        /\ tasks = << >> /\ workers = {}
        /\ \A k \in Keys : drv[k].phase = "Idle" /\ drv[k].sent = 0

\* C6 witness: typeFile has resolved with null after the lookup found no map
C6_Witness ==
    /\ writers = 2
    /\ chunkMap = "missing"
    /\ fileState = "resolvedNull"

\* nothing is connecting or typing any more
Quiescent == \A k \in Keys : drv[k].phase \notin {"Connecting", "Emitting"}

\* C7 as stated: with writers > 1, when api.load has failed for a chunk the
\* failed worker's slot is released, every other chunk is started and runs to
\* dispatch-completion, and typeFile settles
C7_Original ==
    (writers # 1 /\ Quiescent /\ \E k \in Keys : drv[k].phase = "Failed") =>
        /\ \A k \in Keys : drv[k].phase = "Failed" => k \notin workers
        /\ \A k \in Keys : drv[k].phase # "Failed" => drv[k].phase = "Halted"
        /\ fileState # "pending"

\* C9 as stated: what the caller's metrics callback received is never the live
\* record: no later step changes it
C9_Original ==
    \A k \in Keys :
        drv[k].handedLive.given => drv[k].metrics = drv[k].handedLive.val

\* the sessions that were started and have not completed: connecting, emitting,
\* or halted with operations still to be acknowledged
Unfinished ==
    {k \in Keys : \/ drv[k].phase \in {"Connecting", "Emitting"}
                  \/ drv[k].phase = "Halted" /\ Draining(k)}

\* C21 as stated: with writers = W > 1, at most W sessions at a time are
\* connecting, emitting or still awaiting acknowledgements
C21_Original ==
    writers > 1 => Cardinality(Unfinished) <= writers

\* C21 as amended: with writers = W > 1, at most W sessions hold a slot of the
\* queue; a session holds its slot from the start of its worker until its
\* driver signals dispatch-completion, so every unfinished session either
\* holds a slot or has halted and only awaits acknowledgements, and no halted
\* session holds a slot
C21_SlotUntilDispatchCompletion ==
    writers > 1 =>
        /\ Cardinality(workers) <= writers
        /\ \A k \in Unfinished : k \in workers \/ drv[k].phase = "Halted"
        /\ \A k \in workers : drv[k].phase \in {"Connecting", "Emitting", "Failed"}

\* C21 witness: both slots are held while a third session, halted, still
\* awaits an acknowledgement
C21_Witness ==
    /\ writers = 2
    /\ Cardinality(workers) = 2
    /\ Cardinality(Unfinished) = 3
    /\ \E k \in Keys : drv[k].phase = "Halted" /\ Draining(k) /\ k \notin workers

---------------------------------------------------------------------------
(* Claims about one driver (checked under SpecDriver) *)

C10_ForeignAckIgnored ==
    [][ \A k \in Keys, c \in ForeignIds, n \in ForeignSeqs :
          AckForeign(k, c, n, "ping") =>
              /\ drv' = drv
              /\ fileState' = fileState /\ fileResult' = fileResult ]_vars

\* C10 witness: a foreign message carrying the chunk's length as its client
\* sequence number was handled after the delay, with an own operation
\* outstanding, and the session did not complete
C10_Witness ==
    /\ lastForeign.to = 1
    /\ lastForeign.clientSequenceNumber = Len(chunks[1])
    /\ drv[1].acked < drv[1].sent
    /\ PastDelay(drv[1])
    /\ ~drv[1].resolved

\* C11 as stated: every own acknowledgement consumes at most one pending send
\* time, and messageStart holds one send time per operation sent and not yet
\* acknowledged, so that it is empty once every operation is acknowledged
C11_Original ==
    \A k \in Keys :
        Len(drv[k].messageStart) = drv[k].sent - drv[k].acked

\* C12 as stated: with acknowledgements arriving in the order of the sends, the
\* send time taken from messageStart for an acknowledgement is the send time of
\* the operation it acknowledges, also with several operations outstanding
C12_Original ==
    \A k \in Keys :
        drv[k].lastPopped # Undef => drv[k].lastPopped = drv[k].lastSent

\* C13 as stated: for every chunk, the number of operations emitted when the
\* driver signals dispatch-completion is the chunk's length
C13_Original ==
    \A k \in Keys :
        drv[k].signals > 0 => drv[k].sent = Len(chunks[k])

\* C15 as stated: over a non-empty chunk the read cursor stays within
\* 0 .. chunk.length, and typingProgress and ackProgress stay within [0, 1]
\* (both are kept as numerators over chunk.length)
C15_Original ==
    \A k \in Keys :
        Len(chunks[k]) > 0 =>
            /\ drv[k].readPosition \in 0 .. Len(chunks[k])
            /\ drv[k].metrics.typingProgress \in {Undef} \cup (0 .. Len(chunks[k]))
            /\ drv[k].metrics.ackProgress \in {Undef} \cup (0 .. Len(chunks[k]))

\* C18 as stated: while no acknowledgement has carried a valid ping trace,
\* pingAverage and pingMaximum stay unset, whatever traces the own
\* acknowledgements handled so far carried
C18_Original ==
    \A k \in Keys :
        drv[k].pingCounter.samples = 0 =>
            /\ drv[k].metrics.pingAverage = Undef
            /\ drv[k].metrics.pingMaximum = Undef

\* C19 as stated: with the pause flag left deasserted and every operation sent
\* eventually acknowledged, every driver eventually signals
\* dispatch-completion and completes.  A driver that has signalled sends
\* nothing more, and only the acknowledgement of one of its operations can
\* complete it; so once it has signalled and all its operations are
\* acknowledged, it has completed
C19_Original ==
    \A k \in Keys :
        (drv[k].signals > 0 /\ drv[k].sent > 0 /\ drv[k].acked = drv[k].sent)
            => drv[k].resolved

---------------------------------------------------------------------------
(* Claims about the typing loop (checked under SpecLines) *)

\* C14: the number of saves requested is floor(lineNumber / saveLineFrequency)
\* at every point; a save is requested by the step that makes the line counter
\* a multiple of saveLineFrequency, and that step still advances the cursor
\* and records its send
C14_CheckpointCadence ==
    /\ [](\A k \in Keys : drv[k].saves = drv[k].lineNumber \div saveLineFrequency)
    /\ [][ \A k \in Keys :
             drv'[k].saves # drv[k].saves =>
                 /\ drv'[k].saves = drv[k].saves + 1
                 /\ drv'[k].lineNumber = drv[k].lineNumber + 1
                 /\ drv'[k].lineNumber % saveLineFrequency = 0
                 /\ drv'[k].readPosition > drv[k].readPosition
                 /\ drv'[k].sent = drv[k].sent + 1
                 /\ drv'[k].messageStart = Append(drv[k].messageStart, now) ]_vars

\* C14 witness: the line after the first save was typed and no further save
\* was requested
C14_Witness ==
    /\ drv[1].lineNumber = saveLineFrequency + 1
    /\ drv[1].saves = 1
    /\ drv[1].sent = drv[1].readPosition

---------------------------------------------------------------------------
(* Claims about the chart buffer (checked under SpecChart) *)

\* the larger of 0 and n
AtLeastZero(n) == IF n > 0 THEN n ELSE 0

\* C16: every array of the chart buffer always has ChartSamples slots, the
\* write index stays within 0 .. ChartSamples - 1 and advances by one modulo
\* ChartSamples with every recorded sample, and the view handed to the chart
\* lists the slots in the order they were written, the oldest first and the one
\* just written last, also once the buffer has wrapped around
C16_ChartRing ==
    \A k \in Keys :
        LET c == drv[k].chartData
            n == drv[k].published
            v == drv[k].performanceData
        IN  /\ \A a \in {c.label, c.maximum, c.mean, c.minimum, c.stdDev} :
                   Len(a) = ChartSamples
            /\ c.index \in 0 .. ChartSamples - 1
            /\ c.index = n % ChartSamples
            /\ n > 0 =>
                 /\ v.order = [i \in 1 .. ChartSamples |-> AtLeastZero(n - ChartSamples + i)]
                 /\ Len(v.categoryNames) = ChartSamples
                 /\ Len(v.values) = ChartSamples
                 /\ v.categoryNames[ChartSamples] = c.label[((n - 1) % ChartSamples) + 1]
                 /\ v.values[ChartSamples] = c.mean[((n - 1) % ChartSamples) + 1]

\* C16 witness: the buffer wrapped around, the first slot was written a second
\* time and the view ends with it
C16_Witness ==
    /\ drv[1].published = ChartSamples + 1
    /\ drv[1].chartData.index = 1
    /\ drv[1].performanceData.order[ChartSamples] = ChartSamples + 1
    /\ drv[1].performanceData.order[1] = 2

\* C17: a step that writes a slot of the chart buffer, publishes the chart or
\* moves the write index is taken only when a round trip has been measured
\* and before the session completed, and then it records exactly one sample;
\* every other tick, and every tick of a completed session, changes nothing
C17_TickOnlyWithStats ==
    [][ \A k \in Keys :
          ( \/ drv'[k].chartData # drv[k].chartData
            \/ drv'[k].performanceData # drv[k].performanceData
            \/ drv'[k].published # drv[k].published )
          => /\ drv[k].latencyCounter.samples >= 1
             /\ ~drv[k].resolved
             /\ drv'[k].published = drv[k].published + 1
             /\ drv'[k].chartData.index = (drv[k].chartData.index + 1) % ChartSamples ]_vars

\* C17 witness: a session whose first acknowledgement came before any round
\* trip was measured recorded a sample later on and then completed
C17_Witness ==
    /\ drv[1].resolved
    /\ ~drv[1].intervalOn
    /\ drv[1].published >= 1
    /\ drv[1].latencyCounter.samples < drv[1].acked

---------------------------------------------------------------------------
(* Claims about the end of the typing loop (checked under SpecLines) *)

---------------------------------------------------------------------------
(* Claims about DeltaQueueProxy (checked under SpecProxy) *)

\* C22: whenever systemPaused or localPaused is set the queue behind the proxy
\* is paused; the queue leaves the paused state only by a resume or
\* systemResume call after which both flags are cleared, a paused queue
\* delivers nothing, and a resume of one kind leaves the flag of the other
\* kind as it was
C22_ResumeNeedsBothCleared ==
    /\ []((proxy.systemPaused \/ proxy.localPaused) => proxy.queue.paused)
    /\ [][ /\ (proxy.queue.paused /\ ~proxy'.queue.paused) =>
                 /\ proxy'.lastCall \in {"resume", "systemResume"}
                 /\ ~proxy'.systemPaused
                 /\ ~proxy'.localPaused
           /\ (proxy.systemPaused \/ proxy.localPaused) =>
                 Len(proxy'.queue.items) >= Len(proxy.queue.items)
           /\ (proxy' # proxy /\ proxy'.lastCall = "resume") =>
                 proxy'.systemPaused = proxy.systemPaused
           /\ (proxy' # proxy /\ proxy'.lastCall = "systemResume") =>
                 proxy'.localPaused = proxy.localPaused ]_vars

\* C22 witness: after pause and systemPause, the local resume was the last
\* call: the system pause is still asserted and the queue, holding messages,
\* is still paused
C22_Witness ==
    /\ proxy.lastCall = "resume"
    /\ proxy.systemPaused
    /\ ~proxy.localPaused
    /\ proxy.queue.paused
    /\ Len(proxy.queue.items) = MaxQueue

=============================================================================
